---- MODULE Spec2Model ----
(***************************************************************************)
(* Model of the todo dependency graph of the repository:                   *)
(*   src/app/api/todos/route.ts                     (task creation)        *)
(*   src/app/api/todos/[id]/dependencies/route.ts   (dependency edits,     *)
(*       cycle detector, earliest-start calculator, critical-path marker)  *)
(*   src/prisma/migrations/.../migration.sql        (the stored columns)   *)
(*                                                                         *)
(* Dates are whole days (integers >= 1); NULL is the SQL NULL of a         *)
(* nullable DATETIME column.  A request handler is one atomic action:     *)
(* requests are issued one at a time (handleSave awaits each call).        *)
(* A handler whose recursion never ends (calculateEarliestStart or         *)
(* markCriticalPath on a cyclic graph) never answers: the action leaves    *)
(* the store as the handler's last write left it and records the status    *)
(* "hang"; the awaits inside the endless recursion yield to the event      *)
(* loop, so later requests are still served.  The client issues its next   *)
(* request once it has the response or has given up waiting (ClientDone).  *)
(*                                                                         *)
(* SpecReader adds a second client that polls GET /api/todos while an edit *)
(* is being handled: there the database calls of updateCriticalPathStatus  *)
(* are separate steps, as every one of them is awaited on its own.         *)
(***************************************************************************)
EXTENDS Integers, Sequences, FiniteSets, TLC

\* ---------------------------------------------------------------- bounds
MaxTasks == 3
MaxIds == 2
\* Critical-path recomputes followed call by call under SpecReader.
MaxRecomputes == 2

\* SQL NULL of the nullable DATETIME columns dueDate and earliestStart.
NULL == 0

\* The due date a client may send (a day); day 5 is the due date of the
\* chain scenario and lies after every creation date within MaxTasks.
DueDates == {5}

Ids == 1..MaxTasks
IdLists == UNION {[1..k -> Ids] : k \in 0..MaxIds}
\* A request body whose dependencyIds is not an array.
NotArray == <<0>>

VARIABLES
    nTodos,         \* rows of table Todo: ids 1..nTodos (AUTOINCREMENT)
    createdAt,      \* Todo.createdAt, by id (NULL where no row)
    dueDate,        \* Todo.dueDate, by id
    earliestStart,  \* Todo.earliestStart, by id
    isCritical,     \* Todo.isCritical, by id
    dependencies,   \* table _TodoDependencies: <<t, d>> = t depends on d
    clock,          \* CURRENT_TIMESTAMP (day) of the next request
    last,           \* the request being answered and its response
    edited,         \* an edit of the dependencies has completed (history)
    readers,        \* a second client polls GET /api/todos during edits
    run,            \* position inside updateCriticalPathStatus
    seen            \* isCritical as the latest GET /api/todos returned it

vars == <<nTodos, createdAt, dueDate, earliestStart, isCritical, dependencies, clock, last,
          edited, readers, run, seen>>

Exists(id) == id \in 1..nTodos

\* ------------------------------------------------- relation expansion
\* include: { dependencies: true } / { dependents: true } of one row.
DepsOf(edges, t) == {d \in Ids : <<t, d>> \in edges}
DependentsOf(edges, t) == {s \in Ids : <<s, t>> \in edges}

\* The store enumerates rows, and the rows of a relation, in primary-key
\* order (SQLite rowid order; index _TodoDependencies_AB_unique).
RECURSIVE Enumerate(_)
Enumerate(S) ==
    IF S = {} THEN <<>>
    ELSE LET m == CHOOSE x \in S : \A y \in S : x <= y
         IN <<m>> \o Enumerate(S \ {m})

Max(S) == CHOOSE x \in S : \A y \in S : y <= x
Range(s) == {s[i] : i \in 1..Len(s)}

\* a || b || c on nullable dates (a Date object is always truthy).
Or2(a, b) == IF a # NULL THEN a ELSE b
Or3(a, b, c) == Or2(a, Or2(b, c))

\* ------------------------------------------------------ cycle detector
\* dfs of hasCircularDependencies: the result and the two sets it mutates;
\* expanded lists the ids whose row dfs has fetched (findUnique, line 28).
RECURSIVE dfs(_, _, _, _, _)
RECURSIVE dfsLoop(_, _, _, _, _, _, _)
\* A variant of dfs without the visited test of lines 20-22.
dfs_noVisited(edges, n, currentId, newDependencyId, st) ==
    IF currentId \in st.recursionStack THEN [st EXCEPT !.result = TRUE]
    ELSE LET st1 == [result |-> FALSE,
                     visited |-> st.visited \cup {currentId},
                     recursionStack |-> st.recursionStack \cup {currentId},
                     expanded |-> Append(st.expanded, currentId)]
         IN IF ~(currentId \in 1..n) THEN st1
            ELSE dfsLoop(edges, n, currentId, newDependencyId,
                         Enumerate(DepsOf(edges, currentId)), 1, st1)

dfs(edges, n, currentId, newDependencyId, st) ==
    IF currentId \in st.recursionStack THEN [st EXCEPT !.result = TRUE]
    ELSE IF currentId \in st.visited THEN [st EXCEPT !.result = FALSE]
    ELSE LET st1 == [result |-> FALSE,
                     visited |-> st.visited \cup {currentId},
                     recursionStack |-> st.recursionStack \cup {currentId},
                     expanded |-> Append(st.expanded, currentId)]
         IN IF ~(currentId \in 1..n) THEN st1
            ELSE dfsLoop(edges, n, currentId, newDependencyId,
                         Enumerate(DepsOf(edges, currentId)), 1, st1)

dfsLoop(edges, n, currentId, newDependencyId, deps, i, st) ==
    IF i > Len(deps)
    THEN [st EXCEPT !.result = FALSE,
                    !.recursionStack = st.recursionStack \ {currentId}]
    ELSE IF deps[i] = newDependencyId THEN [st EXCEPT !.result = TRUE]
    ELSE LET r == dfs(edges, n, deps[i], newDependencyId, st)
         IN IF r.result THEN r
            ELSE dfsLoop(edges, n, currentId, newDependencyId, deps, i + 1, r)

\* One call of hasCircularDependencies: the search from the candidate.
dfsRun(edges, n, newDependencyId) ==
    dfs(edges, n, newDependencyId, newDependencyId,
        [result |-> FALSE, visited |-> {}, recursionStack |-> {},
         expanded |-> <<>>])

hasCircularDependencies(edges, n, todoId, newDependencyId) ==
    dfsRun(edges, n, newDependencyId).result

\* --------------------------------------------- earliest-start calculator
\* calculateEarliestStart.  The recursion follows every dependency of
\* every task it meets and has no visited set: on a path longer than the
\* number of rows a row repeats and the recursion never ends (hang).
\* fuel counts the rows a path may still visit.
\* Variants of calcES: one whose contribution is dep.dueDate ||
\* depEarliestStart || dep.createdAt, one that takes Math.min.
RECURSIVE calcES_dueFirst(_, _, _, _)
calcES_dueFirst(edges, n, todoId, fuel) ==
    IF fuel = 0 THEN [hang |-> TRUE, date |-> NULL]
    ELSE IF ~(todoId \in 1..n) THEN [hang |-> FALSE, date |-> NULL]
    ELSE IF DepsOf(edges, todoId) = {}
         THEN [hang |-> FALSE, date |-> createdAt[todoId]]
    ELSE LET deps == DepsOf(edges, todoId)
             r == [dep \in deps |-> calcES_dueFirst(edges, n, dep, fuel - 1)]
         IN IF \E dep \in deps : r[dep].hang
            THEN [hang |-> TRUE, date |-> NULL]
            ELSE [hang |-> FALSE,
                  date |-> Max({Or3(dueDate[dep], r[dep].date, createdAt[dep]) :
                                dep \in deps})]

RECURSIVE calcES_min(_, _, _, _)
calcES_min(edges, n, todoId, fuel) ==
    IF fuel = 0 THEN [hang |-> TRUE, date |-> NULL]
    ELSE IF ~(todoId \in 1..n) THEN [hang |-> FALSE, date |-> NULL]
    ELSE IF DepsOf(edges, todoId) = {}
         THEN [hang |-> FALSE, date |-> createdAt[todoId]]
    ELSE LET deps == DepsOf(edges, todoId)
             r == [dep \in deps |-> calcES_min(edges, n, dep, fuel - 1)]
             dates == {Or3(r[dep].date, dueDate[dep], createdAt[dep]) : dep \in deps}
         IN IF \E dep \in deps : r[dep].hang
            THEN [hang |-> TRUE, date |-> NULL]
            ELSE [hang |-> FALSE,
                  date |-> CHOOSE x \in dates : \A y \in dates : x <= y]

\* A variant of calcES that reads the dependency's stored earliestStart
\* column instead of recursing.
calcES_stored(edges, n, todoId, fuel) ==
    IF ~(todoId \in 1..n) THEN [hang |-> FALSE, date |-> NULL]
    ELSE IF DepsOf(edges, todoId) = {}
         THEN [hang |-> FALSE, date |-> createdAt[todoId]]
    ELSE [hang |-> FALSE,
          date |-> Max({Or3(earliestStart[dep], dueDate[dep], createdAt[dep]) :
                        dep \in DepsOf(edges, todoId)})]

RECURSIVE calcES(_, _, _, _)
calcES(edges, n, todoId, fuel) ==
    IF fuel = 0 THEN [hang |-> TRUE, date |-> NULL]
    ELSE IF ~(todoId \in 1..n) THEN [hang |-> FALSE, date |-> NULL]
    ELSE IF DepsOf(edges, todoId) = {}
         THEN [hang |-> FALSE, date |-> createdAt[todoId]]
    ELSE LET deps == DepsOf(edges, todoId)
             r == [dep \in deps |-> calcES(edges, n, dep, fuel - 1)]
         IN IF \E dep \in deps : r[dep].hang
            THEN [hang |-> TRUE, date |-> NULL]
            ELSE [hang |-> FALSE,
                  date |-> Max({Or3(r[dep].date, dueDate[dep], createdAt[dep]) :
                                dep \in deps})]

calculateEarliestStart(edges, n, todoId) == calcES(edges, n, todoId, n)

\* ------------------------------------------------ critical-path marker
\* The loop of markCriticalPath that selects latestDependency: it starts
\* from dependencies[0] and replaces it only by a strictly later date.
\* A variant of latestLoop that compares with >=: among equal dates the
\* last dependency wins.
RECURSIVE latestLoop_lastTie(_, _, _)
latestLoop_lastTie(deps, i, latestDependency) ==
    IF i > Len(deps) THEN latestDependency
    ELSE LET dep == deps[i]
             depDate == Or2(dueDate[dep], createdAt[dep])
             latestDate == Or2(dueDate[latestDependency], createdAt[latestDependency])
         IN latestLoop_lastTie(deps, i + 1,
                       IF depDate >= latestDate THEN dep ELSE latestDependency)

RECURSIVE latestLoop(_, _, _)
latestLoop(deps, i, latestDependency) ==
    IF i > Len(deps) THEN latestDependency
    ELSE LET dep == deps[i]
             depDate == Or2(dueDate[dep], createdAt[dep])
             latestDate == Or2(dueDate[latestDependency], createdAt[latestDependency])
         IN latestLoop(deps, i + 1,
                       IF depDate > latestDate THEN dep ELSE latestDependency)

\* markCriticalPath: flags the row, then recurses on the latest dependency.
\* The walk is a single path without a visited set: once it has made more
\* steps than there are rows it is inside a cycle and never ends (hang).
RECURSIVE markWalk(_, _, _, _, _)
markWalk(edges, n, todoId, flags, fuel) ==
    IF fuel = 0 THEN [hang |-> TRUE, isCritical |-> flags]
    ELSE LET flags1 == [flags EXCEPT ![todoId] = TRUE]
             deps == Enumerate(DepsOf(edges, todoId))
         IN IF Len(deps) > 0
            THEN markWalk(edges, n, latestLoop(deps, 1, deps[1]), flags1, fuel - 1)
            ELSE [hang |-> FALSE, isCritical |-> flags1]

markCriticalPath(edges, n, todoId, flags) == markWalk(edges, n, todoId, flags, n + 1)

\* The for loop of updateCriticalPathStatus over endNodes.
RECURSIVE endNodeLoop(_, _, _, _, _)
\* A variant of endNodeLoop that returns after the walk from the first
\* end node.
endNodeLoop_firstOnly(edges, n, endNodes, i, flags) ==
    IF i > Len(endNodes) THEN [hang |-> FALSE, isCritical |-> flags]
    ELSE markCriticalPath(edges, n, endNodes[i], flags)

endNodeLoop(edges, n, endNodes, i, flags) ==
    IF i > Len(endNodes) THEN [hang |-> FALSE, isCritical |-> flags]
    ELSE LET r == markCriticalPath(edges, n, endNodes[i], flags)
         IN IF r.hang THEN r
            ELSE endNodeLoop(edges, n, endNodes, i + 1, r.isCritical)

\* A variant of updateCriticalPathStatus that skips the end nodes its
\* snapshot shows as already critical.
updateCriticalPathStatus_skipFlagged(edges, n, flags) ==
    LET todos == 1..n
        reset == [t \in Ids |-> FALSE]
        endNodes == Enumerate({t \in todos :
                                 DependentsOf(edges, t) = {} /\ ~flags[t]})
    IN endNodeLoop(edges, n, endNodes, 1, reset)

\* updateCriticalPathStatus: snapshot, reset every flag, walk back from
\* every end node of the snapshot.  flags is the stored column before.
updateCriticalPathStatus(edges, n, flags) ==
    LET todos == 1..n
        reset == [t \in Ids |-> FALSE]
        endNodes == Enumerate({t \in todos : DependentsOf(edges, t) = {}})
    IN endNodeLoop(edges, n, endNodes, 1, reset)

\* ------------------------------------------------------------ requests
Request(op, id, ids, status, depId) ==
    [op |-> op, id |-> id, ids |-> ids, status |-> status, depId |-> depId]

Idle == Request("none", 0, <<>>, "none", 0)

\* No updateCriticalPathStatus call is running.  pc is the next database
\* call, endNodes and i the for loop of line 86, todoId the argument of the
\* pending markCriticalPath call, before the flags when the call began.
NoRun ==
    [pc |-> "none", endNodes |-> <<>>, i |-> 0, todoId |-> 0,
     before |-> [t \in Ids |-> FALSE], started |-> 0]

\* No GET /api/todos has been answered during the running recompute.
NoRead == [read |-> FALSE, isCritical |-> [t \in Ids |-> FALSE]]

\* The empty database of the migration, no request issued.
InitStore ==
    /\ nTodos = 0
    /\ createdAt = [t \in Ids |-> NULL]
    /\ dueDate = [t \in Ids |-> NULL]
    /\ earliestStart = [t \in Ids |-> NULL]
    /\ isCritical = [t \in Ids |-> FALSE]
    /\ dependencies = {}
    /\ clock = 1
    /\ last = Idle
    /\ edited = FALSE
    /\ run = NoRun
    /\ seen = NoRead

Init == InitStore /\ readers = FALSE

\* POST /api/todos: a row with the next id, createdAt = CURRENT_TIMESTAMP,
\* no edges, earliestStart NULL and isCritical false (column defaults).
\* Requests run one at a time and time passes between them, so creation
\* timestamps increase strictly with the id.
POST_todos(titleOk, due) ==
    /\ last = Idle
    /\ nTodos < MaxTasks
    /\ UNCHANGED <<edited, readers, run, seen>>
    /\ IF ~titleOk
       THEN /\ last' = Request("create", 0, <<>>, "badTitle", 0)
            /\ UNCHANGED <<nTodos, createdAt, dueDate, earliestStart, isCritical,
                           dependencies, clock>>
       ELSE /\ nTodos' = nTodos + 1
            /\ clock' = clock + 1
            /\ createdAt' = [createdAt EXCEPT ![nTodos + 1] = clock]
            /\ dueDate' = [dueDate EXCEPT ![nTodos + 1] = due]
            /\ last' = Request("create", nTodos + 1, <<>>, "created", 0)
            /\ UNCHANGED <<earliestStart, isCritical, dependencies>>

\* Lines 211-217 and 250-256: recompute and store the edited row's
\* earliestStart, then the critical flags of the whole table.  Each write
\* is its own statement, so a hang keeps the writes made before it.
\* With a polling reader the handler is followed only up to the call of
\* updateCriticalPathStatus (line 217 / 256), whose snapshot (findMany,
\* line 73) is taken at once; its writes are the steps further below.
Recompute(op, id, ids, edges) ==
    LET es == calculateEarliestStart(edges, nTodos, id)
        cp == updateCriticalPathStatus(edges, nTodos, isCritical)
    IN /\ dependencies' = edges
       /\ IF es.hang
          THEN /\ last' = Request(op, id, ids, "hang", 0)
               /\ UNCHANGED <<earliestStart, isCritical, edited, run>>
          ELSE IF readers
          THEN /\ earliestStart' = [earliestStart EXCEPT ![id] = es.date]
               /\ last' = Request(op, id, ids, "pending", 0)
               /\ run' = [pc |-> "updateMany",
                          endNodes |-> Enumerate({t \in 1..nTodos :
                                                    DependentsOf(edges, t) = {}}),
                          i |-> 0, todoId |-> 0,
                          before |-> isCritical, started |-> run.started + 1]
               /\ UNCHANGED <<isCritical, edited>>
          ELSE /\ earliestStart' = [earliestStart EXCEPT ![id] = es.date]
               /\ isCritical' = cp.isCritical
               /\ last' = Request(op, id, ids, IF cp.hang THEN "hang" ELSE "ok", 0)
               /\ edited' = (edited \/ ~cp.hang)
               /\ UNCHANGED run

\* The validation loop of POST (lines 189-199): the first candidate that is
\* the task itself or that the cycle detector rejects, 0 when there is none.
RECURSIVE firstRejected(_, _, _)
firstRejected(id, ids, i) ==
    IF i > Len(ids) THEN 0
    ELSE IF ids[i] = id \/ hasCircularDependencies(dependencies, nTodos, id, ids[i])
         THEN i
         ELSE firstRejected(id, ids, i + 1)

\* A variant of Reject in which connect ran inside the validation loop: the
\* candidates accepted before the rejected one are already committed.
Reject_connectInLoop(id, ids, i) ==
    /\ last' = Request("add", id, ids, IF ids[i] = id THEN "self" ELSE "cycle", ids[i])
    /\ dependencies' = dependencies \cup {<<id, ids[j]>> : j \in 1..(i - 1)}
    /\ UNCHANGED <<earliestStart, isCritical, edited, run>>

\* The early returns of the validation loop (lines 190-198): candidate i is
\* reported, nothing is written.
Reject(id, ids, i) ==
    /\ last' = Request("add", id, ids, IF ids[i] = id THEN "self" ELSE "cycle", ids[i])
    /\ UNCHANGED <<earliestStart, isCritical, dependencies, edited, run>>

\* POST /api/todos/[id]/dependencies
POST_dependencies(id, ids) ==
    /\ last = Idle
    /\ run.started < MaxRecomputes   \* counts under SpecReader only
    /\ UNCHANGED <<nTodos, createdAt, dueDate, clock, readers, seen>>
    /\ IF ids = NotArray
       THEN /\ last' = Request("add", id, ids, "invalid", 0)
            /\ UNCHANGED <<earliestStart, isCritical, dependencies, edited, run>>
       ELSE IF ~Exists(id)
       THEN /\ last' = Request("add", id, ids, "notFound", 0)
            /\ UNCHANGED <<earliestStart, isCritical, dependencies, edited, run>>
       ELSE LET i == firstRejected(id, ids, 1)
            IN IF i # 0
               THEN Reject(id, ids, i)
               ELSE IF \E d \in Range(ids) : ~Exists(d)
               \* connect of a row that does not exist throws: status 500
               THEN /\ last' = Request("add", id, ids, "error", 0)
                    /\ UNCHANGED <<earliestStart, isCritical, dependencies, edited, run>>
               ELSE Recompute("add", id, ids,
                              dependencies \cup {<<id, d>> : d \in Range(ids)})

\* DELETE /api/todos/[id]/dependencies
DELETE_dependencies(id, ids) ==
    /\ last = Idle
    /\ run.started < MaxRecomputes   \* counts under SpecReader only
    /\ UNCHANGED <<nTodos, createdAt, dueDate, clock, readers, seen>>
    /\ IF ids = NotArray
       THEN /\ last' = Request("remove", id, ids, "invalid", 0)
            /\ UNCHANGED <<earliestStart, isCritical, dependencies, edited, run>>
       ELSE IF ~Exists(id)
       \* update of a row that does not exist throws: status 500
       THEN /\ last' = Request("remove", id, ids, "error", 0)
            /\ UNCHANGED <<earliestStart, isCritical, dependencies, edited, run>>
       ELSE Recompute("remove", id, ids,
                      dependencies \ {<<id, d>> : d \in Range(ids)})

\* The client has read the response (or stopped waiting for one that never
\* comes) and is free to issue its next request: calls run one at a time.
ClientDone ==
    /\ last # Idle
    /\ last.status # "pending"
    /\ last' = Idle
    /\ UNCHANGED <<nTodos, createdAt, dueDate, earliestStart, isCritical,
                   dependencies, clock, edited, readers, run, seen>>

Next ==
    \/ \E titleOk \in BOOLEAN, due \in DueDates \cup {NULL} : POST_todos(titleOk, due)
    \/ \E id \in Ids, ids \in IdLists \cup {NotArray} : POST_dependencies(id, ids)
    \/ \E id \in Ids, ids \in IdLists \cup {NotArray} : DELETE_dependencies(id, ids)
    \/ ClientDone

Spec == Init /\ [][Next]_vars

\* ------------------------------------- the recompute, call by call
\* Line 78: updateMany clears every flag; the for loop of line 86 then
\* starts on the first end node of the snapshot.
updateMany ==
    /\ run.pc = "updateMany"
    /\ isCritical' = [t \in Ids |-> FALSE]
    /\ run' = [run EXCEPT !.pc = "markCriticalPath", !.i = 1,
                          !.todoId = IF Len(run.endNodes) > 0
                                     THEN run.endNodes[1] ELSE 0]
    /\ UNCHANGED <<nTodos, createdAt, dueDate, earliestStart, dependencies,
                   clock, last, edited, readers, seen>>

\* One call of markCriticalPath (lines 92-116): the row is flagged, its
\* dependencies are read and the latest one is the argument of the next
\* call; without dependencies the for loop moves to the next end node.
markCriticalPath_call ==
    /\ run.pc = "markCriticalPath"
    /\ run.todoId # 0
    /\ isCritical' = [isCritical EXCEPT ![run.todoId] = TRUE]
    /\ LET deps == Enumerate(DepsOf(dependencies, run.todoId))
       IN run' = IF Len(deps) > 0
                 THEN [run EXCEPT !.todoId = latestLoop(deps, 1, deps[1])]
                 ELSE [run EXCEPT !.i = run.i + 1,
                                  !.todoId = IF run.i < Len(run.endNodes)
                                             THEN run.endNodes[run.i + 1] ELSE 0]
    /\ UNCHANGED <<nTodos, createdAt, dueDate, earliestStart, dependencies,
                   clock, last, edited, readers, seen>>

\* The for loop is over: updateCriticalPathStatus returns and the handler
\* answers (lines 219 / 258).
updateCriticalPathStatus_return ==
    /\ run.pc = "markCriticalPath"
    /\ run.todoId = 0
    /\ last' = [last EXCEPT !.status = "ok"]
    /\ edited' = TRUE
    /\ run' = [NoRun EXCEPT !.started = run.started]
    /\ seen' = NoRead
    /\ UNCHANGED <<nTodos, createdAt, dueDate, earliestStart, isCritical,
                   dependencies, clock, readers>>

\* GET /api/todos (route.ts:46-77) while a recompute is running: findMany
\* returns the rows as they are stored at that moment.
GET_todos ==
    /\ readers
    /\ run.pc # "none"
    /\ seen' = [read |-> TRUE, isCritical |-> isCritical]
    /\ UNCHANGED <<nTodos, createdAt, dueDate, earliestStart, isCritical,
                   dependencies, clock, last, edited, readers, run>>

InitReader == InitStore /\ readers = TRUE

NextReader ==
    \/ Next
    \/ updateMany
    \/ markCriticalPath_call
    \/ updateCriticalPathStatus_return
    \/ GET_todos

SpecReader == InitReader /\ [][NextReader]_vars

\* ===================================================================
\* Properties
\* ===================================================================

\* Transitive closure of a relation on Ids.
RECURSIVE TC(_)
TC(R) ==
    LET R2 == R \cup {<<a, c>> \in Ids \X Ids :
                        \E b \in Ids : <<a, b>> \in R /\ <<b, c>> \in R}
    IN IF R2 = R THEN R ELSE TC(R2)

\* a depends on b, directly or transitively.
DependsOn(edges, a, b) == <<a, b>> \in TC(edges)
Acyclic(edges) == \A t \in Ids : ~DependsOn(edges, t, t)

IsEdit(r) == r.op \in {"add", "remove"}

\* C1: after any sequence of addDependencies and removeDependencies calls
\* run one at a time from an edge-free store, no task depends on itself,
\* directly or transitively.
C1_EdgeSetAcyclic == Acyclic(dependencies)

\* C2: for existing tasks A and B where A depends on B (directly or
\* transitively), addDependencies(B, [A]) is rejected with the cycle error
\* naming A and the edge B -> A is not committed.
C2_ReverseEdgeRejected ==
    [][\A A \in Ids, B \in Ids :
          (/\ A # B /\ Exists(A) /\ Exists(B)
           /\ DependsOn(dependencies, A, B)
           /\ last'.op = "add" /\ last'.id = B /\ last'.ids = <<A>>)
          => (/\ last'.status = "cycle"
              /\ last'.depId = A
              /\ dependencies' = dependencies)]_vars

\* C3: addDependencies(T, ids) on an existing task T with T in ids is
\* rejected with the self-dependency error, in every graph state, and
\* commits no edge.
C3_SelfAlwaysSelfDependency ==
    [][(/\ last'.op = "add" /\ Exists(last'.id)
        /\ last'.id \in Range(last'.ids))
       => (last'.status = "self" /\ dependencies' = dependencies)]_vars

\* C4: an addDependencies call rejected for a self-reference or a cycle
\* leaves the edge set and every stored earliestStart and isCritical as
\* they were, also when earlier candidates of the call were valid.
C4_RejectedAddCommitsNothing ==
    [][(last'.op = "add" /\ last'.status \in {"self", "cycle"})
       => (/\ dependencies' = dependencies
           /\ earliestStart' = earliestStart
           /\ isCritical' = isCritical)]_vars

\* A rejected call whose first candidate was a valid new dependency and
\* whose second candidate was the one rejected.
C4_Witness ==
    /\ last.op = "add" /\ last.status \in {"self", "cycle"}
    /\ Len(last.ids) = 2 /\ last.depId = last.ids[2]
    /\ last.ids[1] # last.id /\ Exists(last.ids[1])
    /\ last.ids[1] # last.ids[2]
    /\ <<last.id, last.ids[1]>> \notin dependencies

\* The stored earliestStart of every task with a dependency is the value
\* the calculator returns on the current graph.
Fresh(edges, stored) ==
    \A t \in 1..nTodos :
        DepsOf(edges, t) # {} =>
            stored[t] = calculateEarliestStart(edges, nTodos, t).date

\* C5: a completed addDependencies/removeDependencies call leaves, for every
\* task with a dependency, the stored earliestStart equal to the computed
\* one; an edit of one task leaves no other task's stored value stale.
C5_EditKeepsEarliestStartFresh ==
    [][(/\ Acyclic(dependencies) /\ Acyclic(dependencies')
        /\ Fresh(dependencies, earliestStart)
        /\ IsEdit(last') /\ last'.status = "ok")
       => Fresh(dependencies', earliestStart')]_vars

\* The chain of the scenario: A = 1 (created day 1, no due date, no
\* dependencies), B = 2 (due day 5) depends on A, C = 3 depends on B.
ChainScenario ==
    /\ nTodos = 3
    /\ createdAt[1] = 1 /\ dueDate[1] = NULL /\ dueDate[2] = 5
    /\ dependencies = {<<2, 1>>, <<3, 2>>}

\* C6 as stated: in the chain the earliest start computed for B is day 1
\* and the one computed for C is day 5 (B's due date).
C6_ChainAsStated ==
    ChainScenario =>
        /\ calculateEarliestStart(dependencies, nTodos, 2).date = 1
        /\ calculateEarliestStart(dependencies, nTodos, 3).date = 5

\* C6 (amended): in the chain the earliest start computed for B is day 1
\* (A's creation date) and the one computed for C is day 1 as well (B's own
\* computed earliest start; B's due date is not used); the value stored for
\* C by the call that adds C -> B is day 1.
C6_ChainEarliestStart ==
    ChainScenario =>
        /\ calculateEarliestStart(dependencies, nTodos, 2).date = 1
        /\ calculateEarliestStart(dependencies, nTodos, 3).date = 1
        /\ (last.op = "add" /\ last.id = 3 /\ last.status = "ok")
               => earliestStart[3] = 1

C6_Witness ==
    /\ ChainScenario
    /\ last.op = "add" /\ last.id = 3 /\ last.ids = <<2>> /\ last.status = "ok"
    /\ earliestStart[2] = 1

\* The earliest start as C7 words it: the creation date without
\* dependencies, else the latest contribution of a direct dependency.
RECURSIVE EarliestStartOf(_)
Contribution(dep) == Or3(EarliestStartOf(dep), dueDate[dep], createdAt[dep])
EarliestStartOf(t) ==
    IF DepsOf(dependencies, t) = {} THEN createdAt[t]
    ELSE Max({Contribution(dep) : dep \in DepsOf(dependencies, t)})

\* C7: on an acyclic graph the calculator returns the creation date (never
\* NULL) for a task without dependencies and otherwise the latest
\* contribution of its direct dependencies, never earlier than any of
\* them; the value an edit stores for the edited task is that value.
C7_EarliestStartIsLatestContribution ==
    Acyclic(dependencies) =>
        /\ \A t \in 1..nTodos :
             LET es == calculateEarliestStart(dependencies, nTodos, t)
             IN /\ ~es.hang
                /\ es.date # NULL
                /\ es.date = EarliestStartOf(t)
                /\ DepsOf(dependencies, t) = {} => es.date = createdAt[t]
                /\ \A dep \in DepsOf(dependencies, t) : es.date >= Contribution(dep)
        /\ (IsEdit(last) /\ last.status = "ok")
               => earliestStart[last.id] = EarliestStartOf(last.id)

\* An edit has stored the earliest start of a task with two dependencies
\* whose contributions differ.
C7_Witness ==
    /\ Acyclic(dependencies)
    /\ IsEdit(last) /\ last.status = "ok"
    /\ \E d1 \in DepsOf(dependencies, last.id), d2 \in DepsOf(dependencies, last.id) :
           Contribution(d1) < Contribution(d2)
    /\ earliestStart[last.id] # createdAt[last.id]

\* The backward walk as C8 words it.
EffectiveDate(t) == Or2(dueDate[t], createdAt[t])
\* The direct dependency with the latest effective completion date, the
\* first in the store's enumeration order among equal dates.
Bottleneck(t) ==
    LET deps == DepsOf(dependencies, t)
        latest == Max({EffectiveDate(d) : d \in deps})
    IN CHOOSE d \in deps :
           /\ EffectiveDate(d) = latest
           /\ \A e \in deps : EffectiveDate(e) = latest => d <= e
RECURSIVE WalkFrom(_)
WalkFrom(t) ==
    {t} \cup (IF DepsOf(dependencies, t) = {} THEN {} ELSE WalkFrom(Bottleneck(t)))
EndNodes == {t \in 1..nTodos : DependentsOf(dependencies, t) = {}}
CriticalByWalks == UNION {WalkFrom(e) : e \in EndNodes}

\* C8: after a completed addDependencies/removeDependencies call on an
\* acyclic graph the tasks flagged critical are exactly those visited by
\* the backward walks from the tasks without dependents; in the chain
\* 3 -> 2 -> 1 all three are flagged.
C8_CriticalIsBackwardWalks ==
    (IsEdit(last) /\ last.status = "ok" /\ Acyclic(dependencies)) =>
        /\ {t \in Ids : isCritical[t]} = CriticalByWalks
        /\ dependencies = {<<3, 2>>, <<2, 1>>} =>
               (isCritical[1] /\ isCritical[2] /\ isCritical[3])

\* After an edit some task has two dependencies with equal latest effective
\* dates; the first is flagged, the other is not.
C8_Witness ==
    /\ IsEdit(last) /\ last.status = "ok" /\ Acyclic(dependencies)
    /\ \E t \in 1..nTodos, d1 \in Ids, d2 \in Ids :
           /\ {d1, d2} \subseteq DepsOf(dependencies, t)
           /\ d1 < d2 /\ EffectiveDate(d1) = EffectiveDate(d2)
           /\ isCritical[t] /\ isCritical[d1] /\ ~isCritical[d2]

\* The chain's flags after the call that completes it.
C8_ChainWitness ==
    /\ IsEdit(last) /\ last.status = "ok"
    /\ dependencies = {<<3, 2>>, <<2, 1>>}
    /\ isCritical[1] /\ isCritical[2] /\ isCritical[3]

\* C9: a second run of updateCriticalPathStatus right after a first one,
\* with no edit in between, leaves every isCritical as the first run left
\* it; in particular a run right after a completed edit changes nothing.
C9_RecomputeIdempotent ==
    LET once == updateCriticalPathStatus(dependencies, nTodos, isCritical)
        twice == updateCriticalPathStatus(dependencies, nTodos, once.isCritical)
    IN /\ twice = once
       /\ (IsEdit(last) /\ last.status = "ok") => once.isCritical = isCritical

\* A completed edit after which some task is flagged and another is not.
C9_Witness ==
    /\ IsEdit(last) /\ last.status = "ok"
    /\ \E t \in 1..nTodos, u \in 1..nTodos : isCritical[t] /\ ~isCritical[u]
    /\ ~updateCriticalPathStatus(dependencies, nTodos, isCritical).hang

\* C10: removeDependencies(T, ids) on an existing task T, with ids existing
\* tasks of which at least one is no dependency of T, succeeds, adds and
\* removes no edge for the ids T did not depend on, and stores T's
\* recomputed earliestStart and the recomputed critical flags.
C10_RemoveAbsentSucceeds ==
    [][(/\ last'.op = "remove" /\ Exists(last'.id)
        /\ \A d \in Range(last'.ids) : Exists(d)
        /\ \E d \in Range(last'.ids) : <<last'.id, d>> \notin dependencies)
       => (/\ last'.status = "ok"
           /\ dependencies' = dependencies \ {<<last'.id, d>> : d \in Range(last'.ids)}
           /\ earliestStart'[last'.id] =
                  calculateEarliestStart(dependencies', nTodos, last'.id).date
           /\ isCritical' =
                  updateCriticalPathStatus(dependencies', nTodos, isCritical).isCritical)]_vars

\* C11: addDependencies(T, ids) succeeds when ids names a valid, non-cyclic
\* dependency twice or names one T already has, and the edge set then holds
\* that edge (once: the table is a set under _TodoDependencies_AB_unique).
C11_DuplicateAddSucceeds ==
    [][(/\ last'.op = "add" /\ Exists(last'.id) /\ Len(last'.ids) > 0
        /\ \A d \in Range(last'.ids) :
               /\ Exists(d) /\ d # last'.id
               /\ ~DependsOn(dependencies, d, last'.id)
        /\ \/ Len(last'.ids) = 2 /\ last'.ids[1] = last'.ids[2]
           \/ \E d \in Range(last'.ids) : <<last'.id, d>> \in dependencies)
       => (/\ last'.status = "ok"
           /\ dependencies' =
                  dependencies \cup {<<last'.id, d>> : d \in Range(last'.ids)})]_vars

\* C12: addDependencies(T, ids) on an existing task T with an id in ids
\* that names no task is rejected with a not-found failure naming that id,
\* and commits no edge.
C12_MissingIdReportedNotFound ==
    [][(/\ last'.op = "add" /\ Exists(last'.id)
        /\ \E d \in Range(last'.ids) : d \in Ids /\ ~Exists(d))
       => (/\ last'.status = "notFound"
           /\ last'.depId \in Range(last'.ids) /\ ~Exists(last'.depId)
           /\ dependencies' = dependencies)]_vars

\* C13: for distinct existing ids, hasCircularDependencies(dependentId,
\* candidateDependencyId) is true exactly when dependentId is reachable from
\* the candidate along dependency edges.
C13_DetectorIsReachability ==
    \A dependentId \in 1..nTodos, candidate \in 1..nTodos :
        dependentId # candidate =>
            (hasCircularDependencies(dependencies, nTodos, dependentId, candidate)
                <=> DependsOn(dependencies, candidate, dependentId))

\* A dependency cycle can be reached from t (t itself may lie on it).
CycleReachableFrom(edges, t) ==
    \E u \in Ids : (u = t \/ DependsOn(edges, t, u)) /\ DependsOn(edges, u, u)

\* C14: on a graph with a dependency cycle the earliest-start recompute
\* ends and reports a distinct cycle-invariant failure for the operation;
\* it does not recurse forever.
C14_CycleFailsLoudly ==
    /\ \A t \in 1..nTodos :
           CycleReachableFrom(dependencies, t) =>
               ~calculateEarliestStart(dependencies, nTodos, t).hang
    /\ (IsEdit(last) /\ last.status \in {"ok", "hang"}
        /\ CycleReachableFrom(dependencies, last.id))
           => last.status = "cycleInvariantViolated"

\* C15: the cycle detector's search ends on every stored graph, cyclic
\* ones included, and fetches each task at most once per call.
C15_DetectorExpandsOnce ==
    \A candidate \in Ids :
        LET r == dfsRun(dependencies, nTodos, candidate)
        IN /\ \A i \in 1..Len(r.expanded), j \in 1..Len(r.expanded) :
                  i # j => r.expanded[i] # r.expanded[j]
           /\ Len(r.expanded) <= MaxTasks
           /\ Range(r.expanded) = r.visited

\* The detector has answered a request on a stored graph with a cycle,
\* after fetching more than one task.
C15_Witness ==
    /\ ~Acyclic(dependencies)
    /\ last.op = "add" /\ last.status = "cycle"
    /\ Len(dfsRun(dependencies, nTodos, last.depId).expanded) > 1

\* C17: every addDependencies/removeDependencies call issued on an existing
\* task gets a response; no reachable graph makes a recompute run forever.
C17_EveryCallReturns == last.status # "hang"

\* The tasks without dependencies that t reaches along dependency edges.
SourcesOf(t) ==
    {s \in 1..nTodos : DependsOn(dependencies, t, s) /\ DepsOf(dependencies, s) = {}}

\* C18: on an acyclic graph the calculator's value for a task with a
\* dependency is the latest creation date among the dependency-free tasks
\* it reaches; due dates and stored earliestStart values play no part.
C18_EarliestStartIsLatestSource ==
    Acyclic(dependencies) =>
        /\ \A t \in 1..nTodos :
               DepsOf(dependencies, t) # {} =>
                   calculateEarliestStart(dependencies, nTodos, t).date
                       = Max({createdAt[s] : s \in SourcesOf(t)})
        /\ (IsEdit(last) /\ last.status = "ok"
            /\ DepsOf(dependencies, last.id) # {})
               => earliestStart[last.id] = Max({createdAt[s] : s \in SourcesOf(last.id)})

\* An edit has stored the value of a task whose dependency has a due date,
\* a stored earliestStart and a creation date that all differ from it.
C18_Witness ==
    /\ Acyclic(dependencies)
    /\ IsEdit(last) /\ last.status = "ok"
    /\ \E dep \in DepsOf(dependencies, last.id) :
           /\ dueDate[dep] # NULL /\ dueDate[dep] # earliestStart[last.id]
           /\ earliestStart[dep] # NULL /\ earliestStart[dep] # earliestStart[last.id]
           /\ createdAt[dep] # earliestStart[last.id]

\* C16: a GET /api/todos answered while a critical-path recompute runs
\* returns either the complete flags from before the recompute or the
\* complete flags it ends with, never an assignment in between.
C16_ReaderSeesCompleteFlags ==
    (seen.read /\ Acyclic(dependencies)) =>
        seen.isCritical \in
            {run.before,
             updateCriticalPathStatus(dependencies, nTodos, run.before).isCritical}

\* C19, as stated: in every state between requests, once an edit of the
\* dependencies has completed, every task without dependents is critical.
C19_EndNodesCriticalWhenIdle ==
    (last = Idle /\ edited) =>
        \A t \in 1..nTodos : DependentsOf(dependencies, t) = {} => isCritical[t]

\* C19, amended: in the state a completed edit of the dependencies leaves,
\* every task without dependents is critical; a task just created is not
\* (it keeps the column default until the next completed edit).
C19_EndNodesCriticalAfterEdit ==
    /\ (IsEdit(last) /\ last.status = "ok") =>
           \A t \in 1..nTodos : DependentsOf(dependencies, t) = {} => isCritical[t]
    /\ (last.op = "create" /\ last.status = "created") => ~isCritical[last.id]

\* A completed edit has left several tasks without dependents, one of
\* them with a dependency of its own.
C19_Witness ==
    /\ IsEdit(last) /\ last.status = "ok"
    /\ Cardinality({t \in 1..nTodos : DependentsOf(dependencies, t) = {}}) >= 2
    /\ dependencies # {}

====
